---- MODULE Spec2Model ----
(***************************************************************************)
(* Undo/redo engine of bevy_playground: History (src/lib.rs), the          *)
(* PerformAction / Undo / Redo commands, the HistoryItem dispatch record   *)
(* and the two demo actions SetLevel and MoveEntity (src/main.rs).         *)
(*                                                                         *)
(* An Entity is modelled as a natural number: bevy's (index, generation)   *)
(* pair is never handed out twice, so spawn draws a fresh number.          *)
(* Option<T> is a sequence of length at most one.  A Vec3 is a triple of   *)
(* integers (all translations are multiples of 100, exact in f32).         *)
(***************************************************************************)
EXTENDS Integers, Sequences, FiniteSets, TLC

\* ---------------------------------------------------------------- bounds
\* Number of entries one run may spawn (PerformAction commands).
MaxSpawn == 4
\* History-only specification: longest handle sequence, and handle range.
MaxLen == 4
MaxHandle == 2
\* Specification with save and load: PerformAction commands, save requests
\* and load requests of one run.
MaxPerformL == 3
MaxSaves == 1
MaxLoads == 1

\* ------------------------------------------------------------- constants
\* The entity spawned with the Player marker and a Transform in setup.
PlayerEntity == 0
\* Entity::PLACEHOLDER, an entity id no spawn ever returns.
PLACEHOLDER == -1
\* Stand-in for f32::MAX (each lane of Vec3::MAX): larger than any coordinate.
F32_MAX == 2147483647

None == << >>
Some(x) == << x >>

\* Vec3 addition and subtraction, lane by lane.
VAdd(a, b) == << a[1] + b[1], a[2] + b[2], a[3] + b[3] >>
VSub(a, b) == << a[1] - b[1], a[2] - b[2], a[3] - b[3] >>

\* The action types registered by the demo.
ActionTypes == {"SetLevel", "MoveEntity"}

\* The digit keys level_input reacts to (two of Digit1..Digit9), and the
\* deltas movement_input builds ((dir * 100).extend(0)), two of the eight
\* directions.
Digits == {1, 3}
DeltaInputs == { <<100, 0, 0>>, <<0, -100, 0>> }

VARIABLES
    world,   \* the bevy World: entities, component tables, resources
    op,      \* the call or command executed by the last step
    ret,     \* what the History method called by the last step returned
    orig,    \* entry -> the action value its PerformAction was given
    trk,     \* observer: a run of np Performs followed by nu Undos
    osc,     \* observer: an Undo, Redo, Undo oscillation
    scene    \* the scene file, a pending scene spawn, and the run's counters

vars == << world, op, ret, orig, trk, osc, scene >>

\* ---------------------------------------------------------------- History

\* History::new: everything passed in is past.
History_new(past) == [items |-> past, index |-> Len(past)]

\* map_entities that rewrites only the past handles items[..index].
History_map_entities_pastOnly(self, mapper) ==
    [self EXCEPT !.items = [i \in 1..Len(@) |->
                               IF i <= self.index THEN mapper[@[i]] ELSE @[i]]]

\* <History as MapEntities>::map_entities: every handle through the mapper.
History_map_entities(self, mapper) ==
    [self EXCEPT !.items = [i \in 1..Len(@) |-> mapper[@[i]]]]

\* back with the guard off by one (index > 1).
back_offByOne(self) ==
    IF self.index > 1
    THEN LET s1 == [self EXCEPT !.index = @ - 1]
         IN  [self |-> s1, ret |-> Some(s1.items[s1.index + 1])]
    ELSE [self |-> self, ret |-> None]

\* back that returns the last past handle but forgets "self.index -= 1".
back_noDecrement(self) ==
    IF self.index > 0
    THEN [self |-> self, ret |-> Some(self.items[self.index])]
    ELSE [self |-> self, ret |-> None]

\* back written with saturating_sub instead of the guard: at cursor 0 it
\* hands out the first handle again.
back_saturating(self) ==
    IF self.items = << >> THEN [self |-> self, ret |-> None]
    ELSE LET s1 == [self EXCEPT !.index = IF @ > 0 THEN @ - 1 ELSE 0]
         IN  [self |-> s1, ret |-> Some(s1.items[s1.index + 1])]

\* History::back.  items[self.index] (0-based) is items[index + 1] here.
back(self) ==
    IF self.index > 0
    THEN LET s1 == [self EXCEPT !.index = @ - 1]
         IN  [self |-> s1, ret |-> Some(s1.items[s1.index + 1])]
    ELSE [self |-> self, ret |-> None]

\* forward with "self.index += 1" moved out of the if.
forward_incrAlways(self) ==
    IF self.index < Len(self.items)
    THEN LET entity == self.items[self.index + 1]
         IN  [self |-> [self EXCEPT !.index = @ + 1], ret |-> Some(entity)]
    ELSE [self |-> [self EXCEPT !.index = @ + 1], ret |-> None]

\* History::forward.
forward(self) ==
    IF self.index < Len(self.items)
    THEN LET entity == self.items[self.index + 1]
         IN  [self |-> [self EXCEPT !.index = @ + 1], ret |-> Some(entity)]
    ELSE [self |-> self, ret |-> None]

\* push without the drain: the future stays in front of the new handle.
push_noDrain(self, entity) ==
    [self |-> [items |-> Append(self.items, entity), index |-> self.index + 1],
     ret  |-> << >>]

\* push without the push_back.
push_noAppend(self, entity) ==
    [self |-> [items |-> SubSeq(self.items, 1, self.index),
               index |-> self.index + 1],
     ret  |-> SubSeq(self.items, self.index + 1, Len(self.items))]

\* History::push: drain(index..), push_back, index += 1.
push(self, entity) ==
    LET removed == SubSeq(self.items, self.index + 1, Len(self.items))
        kept    == SubSeq(self.items, 1, self.index)
    IN  [self |-> [items |-> Append(kept, entity), index |-> self.index + 1],
         ret  |-> removed]

\* ------------------------------------------------------------------ World
(***************************************************************************)
(* A World w is a record:                                                  *)
(*   alive       the live entities                                         *)
(*   SetLevel    entity -> u32         (component table of SetLevel)       *)
(*   MoveEntity  entity -> [entity, delta]  (component table of MoveEntity)*)
(*   HistoryItem entity -> the action type its fn pointers are bound to    *)
(*   Transform   entity -> translation                                     *)
(*   Level       the Level resource                                        *)
(*   History     the History resource [items, index]                       *)
(*   resources   the resources present, among "Level" and "History"; a     *)
(*               removed resource's field keeps its Default value          *)
(*   vacant      the slots <<T, entity>> that hold T::placeholder()        *)
(*   readPlaceholder  an Action method was invoked on a placeholder        *)
(*   next        the next fresh entity                                     *)
(*   panicked    an unwrap() failed: the command aborted                   *)
(*   calls       the Action methods invoked by the running command         *)
(***************************************************************************)

\* A component table without rows.
EmptyTable == [e \in {} |-> 0]

\* Insert (or overwrite) the row of entity e in a component table.
Insert(table, e, v) ==
    [x \in DOMAIN table \cup {e} |-> IF x = e THEN v ELSE table[x]]

\* Remove the row of entity e from a component table.
Remove(table, e) == [x \in DOMAIN table \ {e} |-> table[x]]

\* A failed unwrap(): the command stops where it is.
Panic(w) == [w EXCEPT !.panicked = TRUE]

\* World::despawn: the entity and all its components go; a dead entity is
\* only warned about.
Despawn(w, e) ==
    [w EXCEPT !.alive = @ \ {e},
              !.SetLevel = Remove(@, e),
              !.MoveEntity = Remove(@, e),
              !.HistoryItem = Remove(@, e),
              !.Transform = Remove(@, e),
              !.vacant = {s \in @ : s[2] # e}]

\* The despawn loop left out: the truncated entries stay in the World.
DespawnAll_forgotten(w, future) == w

\* The loop "for entity in future { world.despawn(entity) }".
RECURSIVE DespawnAll(_, _)
DespawnAll(w, future) ==
    IF future = << >> THEN w
    ELSE DespawnAll(Despawn(w, Head(future)), Tail(future))

\* ---------------------------------------------------------------- actions

\* SetLevel::apply that assigns the level instead of swapping: the action
\* keeps its own value and the previous level is lost.
SetLevel_apply_noSwap(self, w) ==
    IF "Level" \notin w.resources
    THEN [self |-> self, w |-> Panic(w)]
    ELSE [self |-> self, w |-> [w EXCEPT !.Level = self]]

\* SetLevel::apply: mem::swap(&mut self.0, &mut level.0);
\* world.resource_mut::<Level>() panics when the resource is missing.
SetLevel_apply(self, w) ==
    IF "Level" \notin w.resources
    THEN [self |-> self, w |-> Panic(w)]
    ELSE [self |-> w.Level, w |-> [w EXCEPT !.Level = self]]

\* SetLevel::undo: Action::apply(self, world).
SetLevel_undo(self, w) == SetLevel_apply(self, w)

\* MoveEntity::apply: translation += delta on self.entity's Transform.
MoveEntity_apply(self, w) ==
    IF self.entity \notin DOMAIN w.Transform
    THEN [self |-> self, w |-> Panic(w)]
    ELSE [self |-> self,
          w |-> [w EXCEPT !.Transform[self.entity] = VAdd(@, self.delta)]]

\* MoveEntity::undo that adds the delta again.
MoveEntity_undo_adds(self, w) ==
    IF self.entity \notin DOMAIN w.Transform
    THEN [self |-> self, w |-> Panic(w)]
    ELSE [self |-> self,
          w |-> [w EXCEPT !.Transform[self.entity] = VAdd(@, self.delta)]]

\* MoveEntity::undo: translation -= delta.
MoveEntity_undo(self, w) ==
    IF self.entity \notin DOMAIN w.Transform
    THEN [self |-> self, w |-> Panic(w)]
    ELSE [self |-> self,
          w |-> [w EXCEPT !.Transform[self.entity] = VSub(@, self.delta)]]

\* Placeholder::placeholder: u32::default() for SetLevel, the explicit impl
\* for MoveEntity.
Placeholder(T) ==
    IF T = "SetLevel" THEN 0
    ELSE [entity |-> PLACEHOLDER, delta |-> <<F32_MAX, F32_MAX, F32_MAX>>]

\* <T as Action>::apply, by the concrete type T.
Action_apply(T, self, w) ==
    LET w1 == [w EXCEPT !.calls = Append(@, <<"apply", T>>)]
    IN  IF T = "SetLevel" THEN SetLevel_apply(self, w1)
        ELSE MoveEntity_apply(self, w1)

\* <T as Action>::undo, by the concrete type T.
Action_undo(T, self, w) ==
    LET w1 == [w EXCEPT !.calls = Append(@, <<"undo", T>>)]
    IN  IF T = "SetLevel" THEN SetLevel_undo(self, w1)
        ELSE MoveEntity_undo(self, w1)

\* ------------------------------------------------------------ HistoryItem

\* The copy-based undo: the action is cloned out of the slot, undone, and the
\* mutated copy is dropped instead of written back.
HistoryItem_undo_copy(T, w, entity) ==
    IF entity \notin DOMAIN w[T] THEN Panic(w)
    ELSE Action_undo(T, w[T][entity], w).w

\* The undo dispatch without the final write-back: the slot keeps the
\* placeholder.
HistoryItem_undo_noWriteBack(T, w, entity) ==
    IF entity \notin DOMAIN w[T] THEN Panic(w)
    ELSE LET action == w[T][entity]
             w1 == [w EXCEPT ![T] = Insert(@, entity, Placeholder(T)),
                             !.readPlaceholder = @ \/ (<<T, entity>> \in w.vacant),
                             !.vacant = @ \cup {<<T, entity>>}]
         IN  Action_undo(T, action, w1).w

\* The undo fn pointer of HistoryItem::from_type::<T>: mem::replace the
\* component by the placeholder, undo the detached value, write it back.
HistoryItem_undo(T, w, entity) ==
    IF entity \notin DOMAIN w[T] THEN Panic(w)
    ELSE LET action == w[T][entity]
             w1 == [w EXCEPT ![T] = Insert(@, entity, Placeholder(T)),
                             !.readPlaceholder = @ \/ (<<T, entity>> \in w.vacant),
                             !.vacant = @ \cup {<<T, entity>>}]
             r  == Action_undo(T, action, w1)
         IN  IF r.w.panicked THEN r.w
             ELSE IF entity \notin DOMAIN r.w[T] THEN Panic(r.w)
             ELSE [r.w EXCEPT ![T] = Insert(@, entity, r.self),
                              !.vacant = @ \ {<<T, entity>>}]

\* The copy-based redo.
HistoryItem_redo_copy(T, w, entity) ==
    IF entity \notin DOMAIN w[T] THEN Panic(w)
    ELSE Action_apply(T, w[T][entity], w).w

\* The redo dispatch without the final write-back.
HistoryItem_redo_noWriteBack(T, w, entity) ==
    IF entity \notin DOMAIN w[T] THEN Panic(w)
    ELSE LET action == w[T][entity]
             w1 == [w EXCEPT ![T] = Insert(@, entity, Placeholder(T)),
                             !.readPlaceholder = @ \/ (<<T, entity>> \in w.vacant),
                             !.vacant = @ \cup {<<T, entity>>}]
         IN  Action_apply(T, action, w1).w

\* The redo fn pointer of HistoryItem::from_type::<T>: the same with apply.
HistoryItem_redo(T, w, entity) ==
    IF entity \notin DOMAIN w[T] THEN Panic(w)
    ELSE LET action == w[T][entity]
             w1 == [w EXCEPT ![T] = Insert(@, entity, Placeholder(T)),
                             !.readPlaceholder = @ \/ (<<T, entity>> \in w.vacant),
                             !.vacant = @ \cup {<<T, entity>>}]
             r  == Action_apply(T, action, w1)
         IN  IF r.w.panicked THEN r.w
             ELSE IF entity \notin DOMAIN r.w[T] THEN Panic(r.w)
             ELSE [r.w EXCEPT ![T] = Insert(@, entity, r.self),
                              !.vacant = @ \ {<<T, entity>>}]

\* --------------------------------------------------------------- commands

\* PerformAction::apply that spawns the action without its HistoryItem.
PerformAction_apply_noItem(T, action, w) ==
    LET r == Action_apply(T, action, w)
    IN  IF r.w.panicked THEN r.w
        ELSE LET entity == r.w.next
                 w2 == [r.w EXCEPT !.alive = @ \cup {entity},
                                   ![T] = Insert(@, entity, r.self),
                                   !.next = @ + 1]
             IN  IF "History" \notin w2.resources THEN Panic(w2)
                 ELSE LET p  == push(w2.History, entity)
                          w3 == [w2 EXCEPT !.History = p.self]
                      IN  DespawnAll(w3, p.ret)

\* <PerformAction<T> as Command>::apply.
PerformAction_apply(T, action, w) ==
    LET r == Action_apply(T, action, w)
    IN  IF r.w.panicked THEN r.w
        ELSE LET entity == r.w.next
                 w2 == [r.w EXCEPT !.alive = @ \cup {entity},
                                   ![T] = Insert(@, entity, r.self),
                                   !.HistoryItem = Insert(@, entity, T),
                                   !.next = @ + 1]
             IN  IF "History" \notin w2.resources THEN Panic(w2)
                 ELSE LET p  == push(w2.History, entity)
                          w3 == [w2 EXCEPT !.History = p.self]
                      IN  DespawnAll(w3, p.ret)

\* <Undo as Command>::apply.
Undo_apply(w) ==
    LET b  == back(w.History)
        w1 == [w EXCEPT !.History = b.self]
    IN  IF "History" \notin w.resources THEN Panic(w)
        ELSE IF b.ret # None
        THEN LET entity == b.ret[1]
             IN  IF entity \notin DOMAIN w1.HistoryItem THEN Panic(w1)
                 ELSE HistoryItem_undo(w1.HistoryItem[entity], w1, entity)
        ELSE w1

\* <Redo as Command>::apply.
Redo_apply(w) ==
    LET f  == forward(w.History)
        w1 == [w EXCEPT !.History = f.self]
    IN  IF "History" \notin w.resources THEN Panic(w)
        ELSE IF f.ret # None
        THEN LET entity == f.ret[1]
             IN  IF entity \notin DOMAIN w1.HistoryItem THEN Panic(w1)
                 ELSE HistoryItem_redo(w1.HistoryItem[entity], w1, entity)
        ELSE w1

\* ------------------------------------------------------------------- Init

\* The World after App::new()...init_resource::<Level>()
\* .init_resource::<History>() and the setup system.
World0 ==
    [alive       |-> {PlayerEntity},
     SetLevel    |-> EmptyTable,
     MoveEntity  |-> EmptyTable,
     HistoryItem |-> EmptyTable,
     Transform   |-> Insert(EmptyTable, PlayerEntity, <<0, 0, 0>>),
     Level       |-> 0,
     History     |-> [items |-> << >>, index |-> 0],
     resources   |-> {"Level", "History"},
     vacant      |-> {},
     readPlaceholder |-> FALSE,
     next        |-> PlayerEntity + 1,
     panicked    |-> FALSE,
     calls       |-> << >>]

\* What an observer of the Store sees: the Level resource and the
\* translations.
Observable(w) == [Level |-> w.Level, Transform |-> w.Transform]

\* The World without the per-command call log.
Snap(w) == [w EXCEPT !.calls = << >>]

\* No run of Performs is being followed.
NoTrk == [base |-> Observable(World0), np |-> 0, nu |-> 0]

\* No oscillation is being followed.
NoOsc == [stage |-> 0, snap |-> Snap(World0)]

\* No scene file on disk, no scene waiting to be spawned.
Scene0 == [file |-> None, pending |-> FALSE,
           performs |-> 0, saves |-> 0, loads |-> 0]

Init ==
    /\ world = World0
    /\ op = <<"init">>
    /\ ret = << >>
    /\ orig = EmptyTable
    /\ trk = NoTrk
    /\ osc = NoOsc
    /\ scene = Scene0

\* A command starts with an empty call log.
Start(w) == [w EXCEPT !.calls = << >>]

\* The actions the input systems hand to PerformAction in World w:
\* level_input's SetLevel(level + digit), read when the command is applied,
\* and movement_input's MoveEntity { player, delta }.
ActionInputs(T, w) ==
    IF T = "SetLevel" THEN {w.Level + digit : digit \in Digits}
    ELSE {[entity |-> PlayerEntity, delta |-> d] : d \in DeltaInputs}

\* The rows of a table whose entity is still alive in w.
Restrict(table, w) == [x \in DOMAIN table \cap w.alive |-> table[x]]

\* commands.add(PerformAction { action }), applied when the queue is drained.
\* The observer either starts a run at this Perform or extends the run it
\* is following.
Perform ==
    \E T \in ActionTypes : \E action \in ActionInputs(T, world) : \E start \in BOOLEAN :
        /\ ~world.panicked
        /\ world.next <= MaxSpawn
        /\ world' = PerformAction_apply(T, action, Start(world))
        /\ op' = <<"Perform", T>>
        /\ ret' = push(world.History, world.next).ret
        /\ orig' = Restrict(Insert(orig, world.next, [T |-> T, action |-> action]),
                            world')
        /\ trk' = IF start
                  THEN [base |-> Observable(world), np |-> 1, nu |-> 0]
                  ELSE IF trk.np > 0 /\ trk.nu = 0
                       THEN [trk EXCEPT !.np = @ + 1]
                       ELSE NoTrk
        /\ osc' = NoOsc
        /\ scene' = scene

\* commands.add(Undo).
Undo ==
    /\ ~world.panicked
    /\ world' = Undo_apply(Start(world))
    /\ op' = <<"Undo">>
    /\ ret' = back(world.History).ret
    /\ orig' = orig
    /\ trk' = IF trk.np > 0 /\ trk.nu < trk.np
              THEN [trk EXCEPT !.nu = @ + 1]
              ELSE NoTrk
    /\ osc' = IF ret' = None THEN NoOsc
              ELSE IF osc.stage = 2 THEN [osc EXCEPT !.stage = 3]
              ELSE [stage |-> 1, snap |-> Snap(world')]
    /\ scene' = scene

\* commands.add(Redo).
Redo ==
    /\ ~world.panicked
    /\ world' = Redo_apply(Start(world))
    /\ op' = <<"Redo">>
    /\ ret' = forward(world.History).ret
    /\ orig' = orig
    /\ trk' = NoTrk
    /\ osc' = IF ret' # None /\ osc.stage \in {1, 3}
              THEN [stage |-> 2, snap |-> Snap(world)]
              ELSE NoOsc
    /\ scene' = scene

Next == Perform \/ Undo \/ Redo

Spec == Init /\ [][Next]_vars

\* ------------------------------------------- History used on its own

RECURSIVE SeqsUpTo(_, _)
\* The sequences over S of length at most n.
SeqsUpTo(S, n) ==
    IF n = 0 THEN { << >> }
    ELSE LET shorter == SeqsUpTo(S, n - 1)
         IN  shorter \cup {Append(q, x) : q \in shorter, x \in S}

Handles == 1..MaxHandle

\* A History built by History::new from any past (the empty one included).
InitH ==
    /\ \E past \in SeqsUpTo(Handles, MaxLen) :
           world = [World0 EXCEPT !.History = History_new(past)]
    /\ op = <<"new">>
    /\ ret = << >>
    /\ orig = EmptyTable
    /\ trk = NoTrk
    /\ osc = NoOsc
    /\ scene = Scene0

\* history.push(entity)
HPush ==
    \E entity \in Handles :
        LET r == push(world.History, entity)
        IN  /\ world.History.index < MaxLen
            /\ world' = [world EXCEPT !.History = r.self]
            /\ op' = <<"push", entity>>
            /\ ret' = r.ret
            /\ UNCHANGED << orig, trk, osc, scene >>

\* history.back()
HBack ==
    LET r == back(world.History)
    IN  /\ world' = [world EXCEPT !.History = r.self]
        /\ op' = <<"back">>
        /\ ret' = r.ret
        /\ UNCHANGED << orig, trk, osc, scene >>

\* history.forward()
HForward ==
    LET r == forward(world.History)
    IN  /\ world' = [world EXCEPT !.History = r.self]
        /\ op' = <<"forward">>
        /\ ret' = r.ret
        /\ UNCHANGED << orig, trk, osc, scene >>

NextH == HPush \/ HBack \/ HForward

SpecH == InitH /\ [][NextH]_vars

\* history.map_entities(mapper), for any mapper over the handles.
HMap ==
    \E mapper \in [Handles -> Handles] :
        /\ world' = [world EXCEPT !.History = History_map_entities(@, mapper)]
        /\ op' = <<"map_entities", mapper>>
        /\ ret' = << >>
        /\ UNCHANGED << orig, trk, osc, scene >>

NextM == HPush \/ HBack \/ HForward \/ HMap

\* History used on its own, remapping included.
SpecM == InitH /\ [][NextM]_vars

\* ------------------------------------------------------- save and load

\* save_scene: the DynamicScene built from the World under COMPONENT_FILTER
\* and RESOURCE_FILTER: the SetLevel, MoveEntity and Transform components
\* (HistoryItem is not Reflect and is not saved) and the Level and History
\* resources that are present.
SaveScene(w) ==
    [entities   |-> DOMAIN w.SetLevel \cup DOMAIN w.MoveEntity
                        \cup DOMAIN w.Transform,
     SetLevel   |-> w.SetLevel,
     MoveEntity |-> w.MoveEntity,
     Transform  |-> w.Transform,
     resources  |-> w.resources,
     Level      |-> w.Level,
     History    |-> w.History]

\* The entities a scene refers to: its own and those named by its History
\* and its MoveEntity actions.
SceneRefs(sc) ==
    sc.entities \cup {sc.History.items[i] : i \in 1..Len(sc.History.items)}
                \cup {sc.MoveEntity[e].entity : e \in DOMAIN sc.MoveEntity}

\* The entity map of a scene spawn: each scene entity gets a fresh entity,
\* in the order of the scene; an entity the scene only refers to gets a
\* fresh entity that is never spawned.
SceneMapper(sc, w) ==
    [e \in SceneRefs(sc) |->
        IF e \in sc.entities
        THEN w.next + Cardinality({x \in sc.entities : x < e})
        ELSE w.next + Cardinality(sc.entities)
                    + Cardinality({x \in SceneRefs(sc) \ sc.entities : x < e})]

\* The rows of a scene's component table st, moved by the mapper m,
\* written over the table t.
WriteTable(t, st, m) ==
    LET img == {m[e] : e \in DOMAIN st}
    IN  [x \in DOMAIN t \cup img |->
            IF x \in img THEN st[CHOOSE e \in DOMAIN st : m[e] = x]
            ELSE t[x]]

\* MoveEntity::map_entities: self.entity through the mapper.
MoveEntity_map_entities(self, mapper) ==
    [self EXCEPT !.entity = mapper[@]]

\* A scene spawn that rebuilds History with History::new from the saved
\* handles instead of inserting the saved (items, index).
WriteToWorld_newHistory(sc, w) ==
    LET m == SceneMapper(sc, w)
        moves == [e \in DOMAIN sc.MoveEntity |->
                     MoveEntity_map_entities(sc.MoveEntity[e], m)]
        itemsOfSetLevel == [e \in DOMAIN sc.SetLevel |-> "SetLevel"]
        itemsOfMoveEntity == [e \in DOMAIN sc.MoveEntity |-> "MoveEntity"]
    IN  [w EXCEPT
            !.alive = @ \cup {m[e] : e \in sc.entities},
            !.SetLevel = WriteTable(@, sc.SetLevel, m),
            !.MoveEntity = WriteTable(@, moves, m),
            !.Transform = WriteTable(@, sc.Transform, m),
            !.HistoryItem =
                WriteTable(WriteTable(@, itemsOfSetLevel, m),
                           itemsOfMoveEntity, m),
            !.resources = @ \cup sc.resources,
            !.Level = IF "Level" \in sc.resources THEN sc.Level ELSE @,
            !.History = IF "History" \in sc.resources
                        THEN History_new(History_map_entities(sc.History, m).items)
                        ELSE @,
            !.next = @ + Cardinality(SceneRefs(sc))]

\* The spawn of a loaded scene into the World: fresh entities with the
\* reflected components, the HistoryItem each action type requires
\* (#[require(HistoryItem(HistoryItem::new::<Self>))]), MapEntities on the
\* MoveEntity components, the saved resources inserted as saved, and
\* MapEntitiesResource on History.
WriteToWorld(sc, w) ==
    LET m == SceneMapper(sc, w)
        moves == [e \in DOMAIN sc.MoveEntity |->
                     MoveEntity_map_entities(sc.MoveEntity[e], m)]
        itemsOfSetLevel == [e \in DOMAIN sc.SetLevel |-> "SetLevel"]
        itemsOfMoveEntity == [e \in DOMAIN sc.MoveEntity |-> "MoveEntity"]
    IN  [w EXCEPT
            !.alive = @ \cup {m[e] : e \in sc.entities},
            !.SetLevel = WriteTable(@, sc.SetLevel, m),
            !.MoveEntity = WriteTable(@, moves, m),
            !.Transform = WriteTable(@, sc.Transform, m),
            !.HistoryItem =
                WriteTable(WriteTable(@, itemsOfSetLevel, m),
                           itemsOfMoveEntity, m),
            !.resources = @ \cup sc.resources,
            !.Level = IF "Level" \in sc.resources THEN sc.Level ELSE @,
            !.History = IF "History" \in sc.resources
                        THEN History_map_entities(sc.History, m) ELSE @,
            !.next = @ + Cardinality(SceneRefs(sc))]

RECURSIVE DespawnEach(_, _)
\* The loop "for entity in &query { commands.entity(entity)
\* .despawn_recursive() }".
DespawnEach(w, S) ==
    IF S = {} THEN w
    ELSE LET e == CHOOSE x \in S : TRUE
         IN  DespawnEach(Despawn(w, e), S \ {e})

\* A load request that removes the resources and despawns nothing.
LoadRequest_apply_noDespawn(w) ==
    [w EXCEPT !.resources = {},
              !.History = World0.History,
              !.Level = World0.Level]

\* The commands save_load_input queues on KeyO: remove History and Level,
\* despawn every entity of the query (all but windows, cameras and the
\* level text).  The scene root it spawns is the pending scene.
LoadRequest_apply(w) ==
    LET w1 == [w EXCEPT !.resources = {},
                        !.History = World0.History,
                        !.Level = World0.Level]
    IN  DespawnEach(w1, w1.alive)

\* The keys pressed in the runs with save and load: Digit3 and KeyD.
DigitsL == {3}
DeltaInputsL == { <<100, 0, 0>> }

\* The actions the input systems build in World w, or none when the
\* system itself panics: level_input reads the Level resource, and
\* movement_input takes player.single().
InputsL(T, w) ==
    IF T = "SetLevel"
    THEN IF "Level" \in w.resources
         THEN {w.Level + digit : digit \in DigitsL} ELSE {}
    ELSE IF Cardinality(DOMAIN w.Transform) = 1
         THEN {[entity |-> p, delta |-> d] :
                  p \in DOMAIN w.Transform, d \in DeltaInputsL}
         ELSE {}

\* A PerformAction command in the specification with save and load.
LPerform ==
    \E T \in ActionTypes :
        /\ ~world.panicked
        /\ scene.performs < MaxPerformL
        /\ \/ /\ InputsL(T, world) = {}
              /\ world' = Panic(Start(world))
              /\ ret' = << >>
              /\ orig' = orig
           \/ \E action \in InputsL(T, world) :
                 /\ world' = PerformAction_apply(T, action, Start(world))
                 /\ ret' = push(world.History, world.next).ret
                 /\ orig' = Restrict(Insert(orig, world.next,
                                            [T |-> T, action |-> action]),
                                     world')
        /\ op' = <<"Perform", T>>
        /\ scene' = [scene EXCEPT !.performs = @ + 1]
        /\ UNCHANGED << trk, osc >>

\* An Undo command in the specification with save and load.
LUndo ==
    /\ ~world.panicked
    /\ world' = Undo_apply(Start(world))
    /\ op' = <<"Undo">>
    /\ ret' = IF "History" \in world.resources
              THEN back(world.History).ret ELSE None
    /\ UNCHANGED << orig, trk, osc, scene >>

\* A Redo command in the specification with save and load.
LRedo ==
    /\ ~world.panicked
    /\ world' = Redo_apply(Start(world))
    /\ op' = <<"Redo">>
    /\ ret' = IF "History" \in world.resources
              THEN forward(world.History).ret ELSE None
    /\ UNCHANGED << orig, trk, osc, scene >>

\* KeyI: commands.add(save_scene).  The file is written by a detached task;
\* the step stands for the command and the completed write.
Save ==
    /\ ~world.panicked
    /\ scene.saves < MaxSaves
    /\ scene' = [scene EXCEPT !.file = Some(SaveScene(world)),
                              !.saves = @ + 1]
    /\ world' = Start(world)
    /\ op' = <<"Save">>
    /\ ret' = << >>
    /\ UNCHANGED << orig, trk, osc >>

\* KeyO: the load request.
LoadRequest ==
    /\ ~world.panicked
    /\ scene.loads < MaxLoads
    /\ world' = LoadRequest_apply(Start(world))
    /\ scene' = [scene EXCEPT !.pending = TRUE, !.loads = @ + 1]
    /\ op' = <<"LoadRequest">>
    /\ ret' = << >>
    /\ orig' = EmptyTable
    /\ UNCHANGED << trk, osc >>

\* The scene spawner instantiates the pending scene once the asset server
\* has read the file.
SceneSpawn ==
    /\ ~world.panicked
    /\ scene.pending
    /\ scene.file # None
    /\ world' = WriteToWorld(scene.file[1], Start(world))
    /\ scene' = [scene EXCEPT !.pending = FALSE]
    /\ op' = <<"SceneSpawn">>
    /\ ret' = << >>
    /\ UNCHANGED << orig, trk, osc >>

NextL == LPerform \/ LUndo \/ LRedo \/ Save \/ LoadRequest \/ SceneSpawn

\* The commands together with saving and loading the scene.
SpecL == Init /\ [][NextL]_vars

\* ------------------------------------------------- entries that are broken

\* Every handle of History is an entry with its dispatch record and the
\* action value of that type.
Intact(w) ==
    \A i \in 1..Len(w.History.items) :
        LET e == w.History.items[i]
        IN  /\ e \in DOMAIN w.HistoryItem
            /\ e \in DOMAIN w[w.HistoryItem[e]]

\* An entry of History loses its dispatch record (what PerformAction::apply
\* warns of for a reloaded action type that does not require HistoryItem)
\* or its action value.
Strip ==
    \E i \in 1..Len(world.History.items) : \E part \in {"HistoryItem", "action"} :
        LET e == world.History.items[i]
        IN  /\ ~world.panicked
            /\ Intact(world)
            /\ world' = IF part = "HistoryItem"
                        THEN [world EXCEPT !.HistoryItem = Remove(@, e)]
                        ELSE [world EXCEPT ![world.HistoryItem[e]] = Remove(@, e)]
            /\ op' = <<"Strip", part>>
            /\ ret' = << >>
            /\ UNCHANGED << orig, trk, osc, scene >>

NextF == Perform \/ Undo \/ Redo \/ Strip

\* The commands in a World where an entry may be broken.
SpecF == Init /\ [][NextF]_vars

\* ================================================================= claims

\* The fields of the History resource, and the two halves the cursor
\* splits the sequence into.
items == world.History.items
index == world.History.index
Past == SubSeq(items, 1, index)
Future == SubSeq(items, index + 1, Len(items))
pastLen == index
futureLen == Len(items) - index

\* The handles of a sequence.
Range(q) == {q[i] : i \in 1..Len(q)}

\* C1: whatever push, back and forward calls a History built by
\* History::new has seen, the cursor lies in 0..len, and the sequence is the
\* past items[0, index) followed by the future items[index, len).
C1_CursorInRange ==
    /\ index \in 0..Len(items)
    /\ Len(Past) = index
    /\ Past \o Future = items

\* A History with both a past and a future, after a call.
C1_Witness ==
    /\ op[1] \in {"push", "back", "forward"}
    /\ 0 < index
    /\ index < Len(items)

\* C2: push(h) at cursor c and length n returns the handles at c..n-1 in
\* order, leaves the first c handles followed by h, sets the cursor to the
\* new length, and a forward() right after it returns none.
C2_PushTruncates ==
    [][op'[1] = "push" =>
        /\ ret' = SubSeq(items, index + 1, Len(items))
        /\ items' = SubSeq(items, 1, index) \o << op'[2] >>
        /\ index' = Len(items')
        /\ forward(world'.History).ret = None]_vars

\* A push that cut off a future of two handles.
C2_Witness ==
    /\ op[1] = "push"
    /\ Len(ret) = 2
    /\ index > 1

\* C3: a Perform run with k future entries despawns exactly those k
\* entries, keeps every past entry and the new one, and leaves History as
\* the old past followed by the new entry with the cursor at the length.
C3_PerformDestroysFuture ==
    [][op'[1] = "Perform" =>
        LET fut == Range(Future)
            new == items'[Len(items')]
        IN  /\ new \notin world.alive
            /\ world'.alive = (world.alive \ fut) \cup {new}
            /\ \A e \in fut :
                   e \notin DOMAIN world'.SetLevel \cup DOMAIN world'.MoveEntity
                            \cup DOMAIN world'.HistoryItem
            /\ \A e \in Range(Past) \cup {new} :
                   /\ e \in world'.alive
                   /\ e \in DOMAIN world'.HistoryItem
                   /\ e \in DOMAIN world'[world'.HistoryItem[e]]
            /\ items' = Past \o << new >>
            /\ index' = Len(items')]_vars

\* The scenario: past [A, B], one Undo, Perform C: the sequence is [A, C],
\* the cursor 2, and B is gone.
C3_Witness ==
    /\ op[1] = "Perform"
    /\ Len(items) = 2
    /\ index = 2
    /\ Len(ret) = 1
    /\ ret[1] \notin world.alive
    /\ ret[1] \notin Range(items)

\* C4: after N Performs followed by N Undos the Level and the translations
\* are what they were before the first of the Performs.
C4_RoundTrip ==
    (trk.np > 0 /\ trk.nu = trk.np) => Observable(world) = trk.base

\* Two or more Performs undone again, started from a state that is not the
\* initial one.
C4_Witness ==
    /\ trk.np >= 2
    /\ trk.nu = trk.np
    /\ trk.base # Observable(World0)
    /\ Observable(world) = trk.base

RECURSIVE Replay(_, _, _)
\* The World w after applying, oldest first, the actions the first k entries
\* of its were performed with.
Replay(w, its, k) ==
    IF k = 0 THEN w
    ELSE LET e == its[k]
         IN  Action_apply(orig[e].T, orig[e].action, Replay(w, its, k - 1)).w

\* C5: after any Perform, Undo and Redo commands the Level and the
\* translations are those of the initial state with the actions of the
\* past entries applied in order, and no future entry's action.
C5_PastApplied ==
    Observable(Replay(World0, items, index)) = Observable(world)

\* The scenario: Perform A (Level 0 to 3), Perform B (move by (100,0,0)),
\* Undo, Undo, Redo, Undo: cursor 0, Level 0, the Player where it started.
C5_Witness ==
    /\ osc.stage = 3
    /\ index = 0
    /\ Len(items) = 2
    /\ orig[items[1]].T = "SetLevel"
    /\ orig[items[1]].action = 3
    /\ orig[items[2]].T = "MoveEntity"
    /\ orig[items[2]].action.delta = <<100, 0, 0>>
    /\ world.Level = 0
    /\ world.Transform[PlayerEntity] = <<0, 0, 0>>

\* C6: Undo, Redo, Undo on one entry ends in the World (Level, translations,
\* every entry's stored action, History) that held after the first Undo.
C6_Oscillation ==
    osc.stage = 3 => Snap(world) = osc.snap

\* An Undo, Redo, Undo of a SetLevel entry that holds a level different
\* from the current one.
C6_Witness ==
    /\ osc.stage = 3
    /\ op[1] = "Undo"
    /\ ret # None
    /\ world.HistoryItem[ret[1]] = "SetLevel"
    /\ world.SetLevel[ret[1]] # world.Level

\* C7: back() returns none exactly at cursor 0, forward() exactly at cursor
\* = length, and a call that returns none changes neither cursor nor
\* sequence.
C7_NoneAtBoundaries ==
    [][/\ op'[1] = "back" =>
            /\ (ret' = None) <=> (index = 0)
            /\ ret' = None => world'.History = world.History
       /\ op'[1] = "forward" =>
            /\ (ret' = None) <=> (index = Len(items))
            /\ ret' = None => world'.History = world.History]_vars

\* back() returned none on a History that has entries.
C7_Witness ==
    /\ op[1] = "back"
    /\ ret = None
    /\ index = 0
    /\ Len(items) > 1

\* C8: at cursor > 0 back() decrements the cursor and returns the handle
\* now at it; at cursor < length forward() returns the handle at the cursor
\* and increments; the sequence stays, so (pastLen, futureLen) moves by
\* (-1, +1) resp. (+1, -1); a forward() after the back() returns the same
\* handle and restores the cursor.
C8_StepByOne ==
    [][/\ (op'[1] = "back" /\ index > 0) =>
            /\ index' = index - 1
            /\ ret' = Some(items[index' + 1])
            /\ items' = items
            /\ << pastLen', futureLen' >> = << pastLen - 1, futureLen + 1 >>
            /\ forward(world'.History).ret = ret'
            /\ forward(world'.History).self = world.History
       /\ (op'[1] = "forward" /\ index < Len(items)) =>
            /\ ret' = Some(items[index + 1])
            /\ index' = index + 1
            /\ items' = items
            /\ << pastLen', futureLen' >> = << pastLen + 1, futureLen - 1 >>]_vars

\* A back() from the middle of a History of three handles.
C8_Witness ==
    /\ op[1] = "back"
    /\ ret # None
    /\ index = 1
    /\ Len(items) = 3

\* C9 as stated: push takes (pastLen, futureLen) to
\* (pastLen + futureLen + 1, 0).
C9_PushKeepsLength ==
    [][op'[1] = "push" =>
        << pastLen', futureLen' >> = << pastLen + futureLen + 1, 0 >>]_vars

\* C9, amended: push takes (pastLen, futureLen) to (pastLen + 1, 0): the
\* future is dropped, not counted into the past.
C9_PushDropsFuture ==
    [][op'[1] = "push" =>
        << pastLen', futureLen' >> = << pastLen + 1, 0 >>]_vars

\* A push that dropped a future: one past handle more, no future.
C9_Witness ==
    /\ op[1] = "push"
    /\ ret # << >>
    /\ index = Len(items)
    /\ index = 2

\* C10: an Undo at cursor 0 and a Redo at cursor = length invoke no action
\* method, do not abort, and leave the World (Store, History sequence and
\* cursor) as it was.
C10_BoundaryNoOp ==
    [][/\ (op'[1] = "Undo" /\ index = 0) =>
            /\ world'.calls = << >>
            /\ ~world'.panicked
            /\ Snap(world') = Snap(world)
       /\ (op'[1] = "Redo" /\ index = Len(items)) =>
            /\ world'.calls = << >>
            /\ ~world'.panicked
            /\ Snap(world') = Snap(world)]_vars

\* An Undo at cursor 0 of a History that holds (future) entries.
C10_Witness ==
    /\ op[1] = "Undo"
    /\ ret = None
    /\ index = 0
    /\ Len(items) > 0
    /\ world.calls = << >>

\* C11: after an undo or redo dispatch on an entry its slot holds the value
\* the call left in the detached action, not the placeholder and not a
\* stale copy: a SetLevel entry holds the level that was current before the
\* call (and the Level resource the value the entry held), a MoveEntity
\* entry still holds the action it was performed with.
C11_SlotHoldsMutatedValue ==
    [][(op'[1] \in {"Undo", "Redo"} /\ ret' # None) =>
        LET e == ret'[1]
            T == world.HistoryItem[e]
        IN  /\ << T, e >> \notin world'.vacant
            /\ T = "SetLevel" =>
                 /\ world'.SetLevel[e] = world.Level
                 /\ world'.Level = world.SetLevel[e]
            /\ T = "MoveEntity" =>
                 /\ world'.MoveEntity[e] = world.MoveEntity[e]
                 /\ world'.MoveEntity[e] = orig[e].action]_vars

\* The third command of an Undo, Redo, Undo on a SetLevel entry: the slot
\* holds the level the entry was performed with, which is not the
\* placeholder's value.
C11_Witness ==
    /\ osc.stage = 3
    /\ op[1] = "Undo"
    /\ ret # None
    /\ world.HistoryItem[ret[1]] = "SetLevel"
    /\ world.SetLevel[ret[1]] = orig[ret[1]].action
    /\ world.SetLevel[ret[1]] # Placeholder("SetLevel")

\* C12: no Action method is ever invoked on a placeholder, and once a
\* Perform, Undo or Redo has completed no slot holds a placeholder.
C12_PlaceholderNeverRead ==
    /\ ~world.readPlaceholder
    /\ ~world.panicked => world.vacant = {}

\* A Redo of a MoveEntity entry (the type with the explicit placeholder)
\* has run its apply and the slot holds the real action again.
C12_Witness ==
    /\ op[1] = "Redo"
    /\ ret # None
    /\ world.calls = << <<"apply", "MoveEntity">> >>
    /\ world.MoveEntity[ret[1]].entity = PlayerEntity
    /\ world.MoveEntity[ret[1]] # Placeholder("MoveEntity")

\* The entities that carry an action value or a dispatch record.
Entries(w) ==
    DOMAIN w.SetLevel \cup DOMAIN w.MoveEntity \cup DOMAIN w.HistoryItem

\* C18: after any Perform, Undo and Redo commands every handle of History
\* is a live entry with its dispatch record and the action value of that
\* type, the handles are pairwise distinct, and every live entry is in
\* History.
C18_HandlesAndEntriesAgree ==
    /\ \A i \in 1..Len(items) :
           /\ items[i] \in world.alive
           /\ items[i] \in DOMAIN world.HistoryItem
           /\ items[i] \in DOMAIN world[world.HistoryItem[items[i]]]
    /\ \A i, j \in 1..Len(items) : items[i] = items[j] => i = j
    /\ Entries(world) \subseteq Range(items)
    /\ Entries(world) \subseteq world.alive

\* A History with past and future entries after earlier entries were
\* truncated and despawned.
C18_Witness ==
    /\ 0 < index
    /\ index < Len(items)
    /\ world.next > PlayerEntity + 1 + Len(items)
    /\ Cardinality(Entries(world)) = Len(items)

\* The levels of a History of SetLevel entries as debug_history prints
\* them: the past entries' values, the current Level, the future entries'.
Timeline(w) ==
    [i \in 1..(Len(w.History.items) + 1) |->
        IF i <= w.History.index THEN w.SetLevel[w.History.items[i]]
        ELSE IF i = w.History.index + 1 THEN w.Level
        ELSE w.SetLevel[w.History.items[i - 1]]]

\* Every entry of w's History is a SetLevel.
OnlySetLevel(w) ==
    \A i \in 1..Len(w.History.items) :
        w.History.items[i] \in DOMAIN w.SetLevel

\* C20: in a History of SetLevel entries an Undo or a Redo leaves the
\* timeline unchanged and moves the position of the current Level by one;
\* Perform(SetLevel(n)) cuts the timeline after the current Level and
\* appends n as the new current Level.
C20_Timeline ==
    [][(OnlySetLevel(world) /\ OnlySetLevel(world')) =>
        /\ (op'[1] = "Undo" /\ ret' # None) =>
              /\ Timeline(world') = Timeline(world)
              /\ index' = index - 1
        /\ (op'[1] = "Redo" /\ ret' # None) =>
              /\ Timeline(world') = Timeline(world)
              /\ index' = index + 1
        /\ op'[1] = "Perform" =>
              /\ Timeline(world') =
                     SubSeq(Timeline(world), 1, index + 1)
                         \o << orig'[items'[Len(items')]].action >>
              /\ index' = Len(items')
              /\ world'.Level = orig'[items'[Len(items')]].action]_vars

\* An Undo in the middle of a History of three SetLevel entries.
C20_Witness ==
    /\ op[1] = "Undo"
    /\ ret # None
    /\ OnlySetLevel(world)
    /\ Len(items) = 3
    /\ index = 1
    /\ Timeline(world)[2] = world.Level

\* The image of an Option<Entity> under a mapper.
MapOption(mapper, r) == IF r = None THEN None ELSE Some(mapper[r[1]])

\* C17: map_entities through f puts f(h) where h was, for past and future
\* handles alike, and keeps length, order and cursor; back() and forward()
\* then return the images of what they would have returned before and move
\* the cursor as before.
C17_RemapKeepsShape ==
    [][op'[1] = "map_entities" =>
        LET f == op'[2]
        IN  /\ Len(items') = Len(items)
            /\ \A i \in 1..Len(items) : items'[i] = f[items[i]]
            /\ index' = index
            /\ back(world'.History).ret = MapOption(f, back(world.History).ret)
            /\ forward(world'.History).ret
                   = MapOption(f, forward(world.History).ret)
            /\ back(world'.History).self.index = back(world.History).self.index
            /\ forward(world'.History).self.index
                   = forward(world.History).self.index]_vars

\* A History with past and future remapped by the mapper that swaps the
\* handles 1 and 2, both of which it holds.
C17_Witness ==
    /\ op[1] = "map_entities"
    /\ op[2][1] = 2
    /\ op[2][2] = 1
    /\ 0 < index
    /\ index < Len(items)
    /\ {1, 2} \subseteq Range(Future)

\* C13 as stated: an Undo or Redo that reaches an entry without its
\* dispatch record or its action value aborts and leaves the cursor and
\* the sequence of History as they were before the command.
C13_AbortLeavesHistory ==
    [][(op'[1] \in {"Undo", "Redo"} /\ ~Intact(world)) =>
        (world'.panicked => world'.History = world.History)]_vars

C15_LoadedCursorAtEnd ==
    (op[1] = "SceneSpawn" /\ "History" \in world.resources) =>
        /\ index = Len(items)
        /\ forward(world.History).ret = None
        /\ back(world.History).ret
               = (IF items = << >> THEN None ELSE Some(items[Len(items)]))

\* C15, amended: a History reconstructed from persisted data has the
\* cursor it was saved with: the loaded handles before it are past, those
\* from it on are the pending future, every one of them is a live entry;
\* the first forward() returns none only if the saved cursor was the full
\* length, and the first back() returns the handle before the cursor.
C15_LoadedCursorAsSaved ==
    (op[1] = "SceneSpawn" /\ "History" \in world.resources) =>
        LET saved == scene.file[1].History
        IN  /\ index = saved.index
            /\ Len(items) = Len(saved.items)
            /\ index <= Len(items)
            /\ \A i \in 1..Len(items) : items[i] \in Entries(world)
            /\ (forward(world.History).ret = None)
                   <=> (saved.index = Len(saved.items))
            /\ back(world.History).ret
                   = (IF index = 0 THEN None ELSE Some(items[index]))

\* A scene saved with a past and a pending future has been spawned.
C15_Witness ==
    /\ op[1] = "SceneSpawn"
    /\ "History" \in world.resources
    /\ 0 < index
    /\ index < Len(items)
    /\ forward(world.History).ret # None

\* C16: the spawn of a saved scene installs History with the saved length
\* and the saved cursor, and the first forward() returns the handle of the
\* loaded copy of the entry that was at the saved cursor (for items
\* [A, B, C] and saved index 2: cursor 2 and C).
C16_LoadKeepsCursor ==
    [][(op'[1] = "SceneSpawn" /\ "History" \in scene.file[1].resources) =>
        LET saved == scene.file[1]
            was   == forward(saved.History).ret
            now   == forward(world'.History).ret
        IN  /\ index' = saved.History.index
            /\ Len(items') = Len(saved.History.items)
            /\ (now = None) <=> (was = None)
            /\ was # None =>
                 /\ now[1] \in world'.alive
                 /\ now[1] = items'[saved.History.index + 1]
                 /\ (now[1] \in DOMAIN world'.SetLevel)
                        <=> (was[1] \in DOMAIN saved.SetLevel)
                 /\ now[1] \in DOMAIN world'.SetLevel =>
                        world'.SetLevel[now[1]] = saved.SetLevel[was[1]]
                 /\ now[1] \in DOMAIN world'.MoveEntity =>
                        world'.MoveEntity[now[1]].delta
                            = saved.MoveEntity[was[1]].delta]_vars

\* The scenario: a scene saved with three entries and cursor 2 has been
\* spawned; the cursor is 2 and forward() returns the third handle.
C16_Witness ==
    /\ op[1] = "SceneSpawn"
    /\ Len(items) = 3
    /\ index = 2
    /\ scene.file[1].History.index = 2
    /\ forward(world.History).ret = Some(items[3])
    /\ items[3] \in world.alive

\* C19 as stated: whenever a Perform, Undo or Redo executes, History is
\* present, also between a load request and the spawn of the loaded scene,
\* and no Undo or Redo aborts.
C19_HistoryPresent ==
    [][op'[1] \in {"Perform", "Undo", "Redo"} =>
        /\ "History" \in world.resources
        /\ op'[1] \in {"Undo", "Redo"} => ~world'.panicked]_vars

====
